---- MODULE Spec2Model ----
(***************************************************************************)
(* State-machine model of QgsMapRendererTask                               *)
(* (src/src/core/qgsmaprenderertask.cpp): one worker executing run() and   *)
(* then finished(), and a number of threads each calling cancel() once.    *)
(***************************************************************************)
EXTENDS Integers, Sequences, FiniteSets, TLC

\* ------------------------------------------------------------ bounds
NumCancelers == 2
MaxAnnotations == 2
MaxDecorations == 2
MaxAddCalls == 2

Cancelers == 1..NumCancelers

\* ------------------------------------------------------------ values
NoError == "none"
ImageAllocationFail == "ImageAllocationFail"
ImageSaveFail == "ImageSaveFail"
ImageUnsupportedFormat == "ImageUnsupportedFormat"

\* Holders of mJobMutex.
Free == << "free" >>
Worker == << "worker" >>
Canceler(c) == << "cancel", c >>

NoJob == "nullptr"
TheJob == "job"

\* Surfaces a QPainter can be bound to: none (null pointer), the painter
\* handed to the second constructor, a painter on the local image, a painter
\* on the local printer.
NoPainter == "nullptr"
ExtPainter == "external"
ImgPainter == "img"
PrinterPainter == "printer"

\* mMapSettings.layers(): the layers of the map; layer 2 exists but is not
\* part of the map, 0 stands for "no associated layer".
MapLayers == {1}

\* IEEE 754 binary64 values (the C++ double): a finite value is
\* (-1)^neg * m * 2^e with m a natural number of at most 53 bits, kept as its
\* binary digits, least significant first, odd or zero; its leading digit is
\* worth at most 2^1023 and its last digit at least 2^-1074.
Abs(n) == IF n < 0 THEN 0 - n ELSE n
Top(b) == IF \E i \in 1..Len(b) : b[i] = 1
            THEN CHOOSE i \in 1..Len(b) : b[i] = 1 /\ \A j \in (i + 1)..Len(b) : b[j] = 0
            ELSE 0
Trim(b) == SubSeq(b, 1, Top(b))
\* The digits of a natural number below 2^31.
Bits(n) == Trim([i \in 1..31 |-> (n \div 2^(i - 1)) % 2])
Bit(b, i) == IF i \in 1..Len(b) THEN b[i] ELSE 0
ShiftLeft(b, k) == IF b = << >> THEN << >> ELSE [i \in 1..k |-> 0] \o b
Longer(a, b) == IF Len(a) > Len(b) THEN Len(a) ELSE Len(b)
\* a + b: the carry into a digit comes from the nearest lower digit where
\* both operands have a one, if every digit between has exactly one.
BigAdd(a, b) ==
  LET carry(i) == \E j \in 1..(i - 1) :
                    /\ Bit(a, j) = 1 /\ Bit(b, j) = 1
                    /\ \A l \in (j + 1)..(i - 1) : Bit(a, l) # Bit(b, l)
  IN IF a = << >> THEN b
     ELSE IF b = << >> THEN a
     ELSE Trim([i \in 1..(Longer(a, b) + 1) |->
                  (Bit(a, i) + Bit(b, i) + (IF carry(i) THEN 1 ELSE 0)) % 2])
\* a - b for a >= b: the borrow, likewise.
BigSub(a, b) ==
  LET borrow(i) == \E j \in 1..(i - 1) :
                     /\ Bit(a, j) < Bit(b, j)
                     /\ \A l \in (j + 1)..(i - 1) : Bit(a, l) = Bit(b, l)
  IN IF b = << >> THEN a
     ELSE Trim([i \in 1..Len(a) |->
                  (Bit(a, i) - Bit(b, i) - (IF borrow(i) THEN 1 ELSE 0) + 2) % 2])
BigLess(a, b) ==
  \/ Len(a) < Len(b)
  \/ /\ Len(a) = Len(b)
     /\ \E i \in 1..Len(a) :
          /\ a[i] < b[i]
          /\ \A j \in (i + 1)..Len(a) : a[j] = b[j]
\* The sum of a shifted to every one of the digits lo..hi of b.
RECURSIVE MulRange(_, _, _, _)
MulRange(a, b, lo, hi) ==
  IF lo > hi THEN << >>
  ELSE IF lo = hi THEN (IF b[lo] = 1 THEN ShiftLeft(a, lo - 1) ELSE << >>)
  ELSE LET mid == (lo + hi) \div 2
       IN BigAdd(MulRange(a, b, lo, mid), MulRange(a, b, mid + 1, hi))
Ones(b) == Cardinality({ i \in 1..Len(b) : b[i] = 1 })
\* a * b, summed over the ones of the operand that has fewer of them.
BigMul(a, b) ==
  IF Ones(a) < Ones(b) THEN MulRange(b, a, 1, Len(a)) ELSE MulRange(a, b, 1, Len(b))
\* Long division by d # 0 of the digits hi down to lo of n, entered with the
\* remainder r of the digits above hi: the quotient digits and the remainder.
RECURSIVE DivRange(_, _, _, _, _)
DivRange(n, d, hi, lo, r) ==
  IF hi < lo THEN [q |-> << >>, r |-> r]
  ELSE IF hi = lo
    THEN LET r2 == Trim(<< n[hi] >> \o r)
         IN IF BigLess(r2, d) THEN [q |-> << 0 >>, r |-> r2]
            ELSE [q |-> << 1 >>, r |-> BigSub(r2, d)]
  ELSE LET mid == (lo + hi) \div 2
           upper == DivRange(n, d, hi, mid + 1, r)
       IN \* the upper digits are divided before the lower ones are entered;
          \* their remainder is below d
          IF ~BigLess(upper.r, d) THEN upper
          ELSE LET lower == DivRange(n, d, mid, lo, upper.r)
               IN [q |-> lower.q \o upper.q, r |-> lower.r]
BigDivMod(n, d) ==
  LET all == DivRange(n, d, Len(n), 1, << >>)
  IN [q |-> Trim(all.q), r |-> all.r]

Finite(neg, m, e) == [class |-> "finite", neg |-> neg, m |-> m, e |-> e]
Infinity(neg) == [class |-> "inf", neg |-> neg, m |-> << >>, e |-> 0]
NaN == [class |-> "nan", neg |-> FALSE, m |-> << >>, e |-> 0]
IsZero(a) == a.class = "finite" /\ a.m = << >>

\* The mantissa made odd.
Normalize(neg, m, e) ==
  IF m = << >> THEN Finite(neg, << >>, 0)
  ELSE LET low == CHOOSE i \in 1..Len(m) : m[i] = 1 /\ \A j \in 1..(i - 1) : m[j] = 0
       IN Finite(neg, SubSeq(m, low, Len(m)), e + low - 1)

\* The double nearest to (-1)^neg * m * 2^e, ties to the even mantissa: the
\* digits beyond the 53 leading ones and the digits worth less than 2^-1074
\* (the subnormal grid) are rounded away, a result of 2^1024 or more is
\* infinite, a result rounded to nothing is a zero of the same sign.
Round53(neg, m, e) ==
  LET beyond == Len(m) - 53
      below == 0 - 1074 - e
      k == IF beyond > below THEN beyond ELSE below
  IN IF k <= 0
       THEN IF e + Len(m) > 1024 THEN Infinity(neg) ELSE Normalize(neg, m, e)
       ELSE LET kept == SubSeq(m, k + 1, Len(m))
                sticky == \E i \in 1..(k - 1) : Bit(m, i) = 1
                up == Bit(m, k) = 1 /\ (sticky \/ Bit(kept, 1) = 1)
                rounded == IF up THEN BigAdd(kept, << 1 >>) ELSE kept
            IN IF e + k + Len(rounded) > 1024 THEN Infinity(neg)
               ELSE Normalize(neg, rounded, e + k)

\* int to double, and the double n / 2^k
Double(n) == Round53(n < 0, Bits(Abs(n)), 0)
Dyadic(n, k) == Round53(n < 0, Bits(Abs(n)), 0 - k)

\* a - b
DSub(a, b) ==
  IF a.class = "nan" \/ b.class = "nan" THEN NaN
  ELSE IF a.class = "inf"
    THEN IF b.class = "inf" /\ a.neg = b.neg THEN NaN ELSE a
  ELSE IF b.class = "inf" THEN Infinity(~b.neg)
  ELSE IF a.m = << >> /\ b.m = << >> THEN Finite(a.neg /\ ~b.neg, << >>, 0)
  ELSE IF b.m = << >> THEN a
  ELSE IF a.m = << >> THEN Finite(~b.neg, b.m, b.e)
  ELSE LET low == IF a.e < b.e THEN a.e ELSE b.e
           x == ShiftLeft(a.m, a.e - low)
           y == ShiftLeft(b.m, b.e - low)
       IN IF a.neg # b.neg THEN Round53(a.neg, BigAdd(x, y), low)
          ELSE IF x = y THEN Finite(FALSE, << >>, 0)
          ELSE IF BigLess(x, y) THEN Round53(~a.neg, BigSub(y, x), low)
          ELSE Round53(a.neg, BigSub(x, y), low)

\* a * b
DMul(a, b) ==
  IF a.class = "nan" \/ b.class = "nan" THEN NaN
  ELSE IF a.class = "inf" \/ b.class = "inf"
    THEN IF IsZero(a) \/ IsZero(b) THEN NaN ELSE Infinity(a.neg # b.neg)
  ELSE Round53(a.neg # b.neg, BigMul(a.m, b.m), a.e + b.e)

\* a / b: the quotient of the mantissas is taken to 55 digits or more, and a
\* remainder is kept as one more digit below them.
DDiv(a, b) ==
  IF a.class = "nan" \/ b.class = "nan" THEN NaN
  ELSE IF a.class = "inf"
    THEN IF b.class = "inf" THEN NaN ELSE Infinity(a.neg # b.neg)
  ELSE IF b.class = "inf" THEN Finite(a.neg # b.neg, << >>, 0)
  ELSE IF b.m = << >>
    THEN IF a.m = << >> THEN NaN ELSE Infinity(a.neg # b.neg)
  ELSE IF a.m = << >> THEN Finite(a.neg # b.neg, << >>, 0)
  ELSE LET want == 55 + Len(b.m) - Len(a.m)
           k == IF want > 0 THEN want ELSE 0
           d == BigDivMod(ShiftLeft(a.m, k), b.m)
       IN IF d.r = << >> THEN Round53(a.neg # b.neg, d.q, a.e - b.e - k)
          ELSE Round53(a.neg # b.neg, << 1 >> \o d.q, a.e - b.e - k - 1)

\* What run() reads of mMapSettings: extent(), whose xMinimum, yMinimum,
\* width and height are doubles, and outputSize(), whose width and height are
\* ints.
MapSettings(xMinimum, yMinimum, width, height, outputWidth, outputHeight) ==
  [xMinimum |-> xMinimum, yMinimum |-> yMinimum, width |-> width, height |-> height,
   outputWidth |-> outputWidth, outputHeight |-> outputHeight]

DefaultMapSettings == MapSettings(Double(0), Double(0), Double(2), Double(2), 2, 2)

\* An annotation: isNull is the outcome of clone() (a clone that is a null
\* pointer); the placement is hasFixedMapPosition(), mapPosition() and
\* relativePosition(), each position a pair of doubles.
Annotation(isNull, visible, mapLayer, hasFixedMapPosition, mapPosition, relativePosition) ==
  [isNull |-> isNull, visible |-> visible, mapLayer |-> mapLayer,
   hasFixedMapPosition |-> hasFixedMapPosition, mapPosition |-> mapPosition,
   relativePosition |-> relativePosition]

Half == Dyadic(1, 1)

\* An annotation placed relative to the output, at its middle.
Unplaced(isNull, visible, mapLayer) ==
  Annotation(isNull, visible, mapLayer, FALSE, << Double(0), Double(0) >>, << Half, Half >>)

\* The annotations a caller can hand to addAnnotations.
AnnotationPool ==
  { Unplaced(FALSE, TRUE, 0),
    Unplaced(FALSE, FALSE, 0),
    Unplaced(FALSE, TRUE, 1),
    Unplaced(FALSE, TRUE, 2),
    Unplaced(TRUE, TRUE, 0) }

SeqsUpTo(S, n) == UNION { [1..k -> S] : k \in 0..n }

AnnotationLists == SeqsUpTo(AnnotationPool, MaxAnnotations)

\* Decorations are opaque objects told apart by identity.
DecorationLists == { [i \in 1..k |-> i] : k \in 0..MaxDecorations }

\* The ways the task can be constructed (lines 31-45).  The force-raster flag
\* is only read together with the PDF format; it is varied for the PDF and
\* the PNG output.  A task without a file name and without a painter draws
\* and writes nothing out, whatever its format.
FileConfigs ==
  { [mFileName |-> fn[1], suffix |-> fn[2], mFileFormat |-> fn[3],
     mForceRaster |-> fn[4], mPainter |-> NoPainter]
      : fn \in { <<"map.png", "png", "PNG", FALSE>>, <<"map.png", "png", "PNG", TRUE>>,
                 <<"map.tif", "tif", "TIF", FALSE>>, <<"map.tiff", "tiff", "TIF", FALSE>>,
                 <<"map.pdf", "pdf", "PDF", FALSE>>, <<"map.pdf", "pdf", "PDF", TRUE>>,
                 <<"", "", "PNG", FALSE>>, <<"", "", "PDF", TRUE>> } }

PainterConfigs ==
  { [mFileName |-> "", suffix |-> "", mFileFormat |-> "",
     mForceRaster |-> FALSE, mPainter |-> p] : p \in {ExtPainter, NoPainter} }

\* The inputs of the specification with concurrent cancel() calls: one
\* configuration per output path, and two annotation lists.
ConcurrentConfigs ==
  { c \in FileConfigs \cup PainterConfigs :
      \/ c.mPainter = ExtPainter
      \/ c.mFileName = "map.png" /\ ~c.mForceRaster
      \/ c.mFileName = "map.pdf" }

ConcurrentAnnotationLists ==
  { << >>, << Unplaced(FALSE, TRUE, 0) >> }

\* The inputs of the specification of the placement: extents and output
\* sizes, and visible annotations at every position of a grid of halves.
\* Extents with whole sides, extents whose side 1.5 + 2^-51 takes all the 53
\* digits of a double, and the empty extent.
LongSide == DSub(Dyadic(3, 1), Dyadic(0 - 1, 51))
PlacementMapSettings ==
  { MapSettings(Double(x), Double(1), Double(w), Double(h), ow, 2)
      : x \in {0 - 1, 0}, w \in {1, 2}, h \in {1, 3}, ow \in {2, 3} }
  \cup { MapSettings(Double(0), Double(1), LongSide, LongSide, 3, oh) : oh \in {2, 3} }
  \cup { MapSettings(Double(0), Double(1), Double(0), Double(0), 2, 2) }
\* Map coordinates: the halves from -1 to 3, and the middle of a long side
\* measured from 0 and from 1.
Coordinates ==
  { Dyadic(n, 1) : n \in (0 - 2)..6 }
  \cup { DMul(Half, LongSide), DSub(DMul(Half, LongSide), Double(0 - 1)) }
\* Map positions: lines 171 and 172 compute x and y apart, so every
\* coordinate is taken as an x and as a y, beside 0, beside 2 and beside
\* itself, and the middle of the long extent is one more position.
MapPositions ==
  { p \in Coordinates \X Coordinates : p[1] = p[2] \/ p[1] = Double(0) \/ p[2] = Double(2) }
  \cup { << DMul(Half, LongSide), DSub(DMul(Half, LongSide), Double(0 - 1)) >> }
\* Relative positions: the corners, the middle, and the double nearest to 1/3.
Shares == { Double(0), Half, Double(1), DDiv(Double(1), Double(3)) }
PlacedAnnotations ==
  { Annotation(FALSE, TRUE, 0, TRUE, p, << Double(0), Double(0) >>) : p \in MapPositions }
  \cup { Annotation(FALSE, TRUE, 0, FALSE, << Double(0), Double(0) >>, << x, y >>)
           : x \in Shares, y \in Shares }

\* The inputs of the specification of the ownership: the external painter
\* and lists over two annotations.
OwnershipLists == SeqsUpTo({ Unplaced(FALSE, TRUE, 0), Unplaced(FALSE, FALSE, 0) }, MaxAnnotations)

\* Objects on the heap, told apart by identity: the n-th object returned by
\* clone(), and the null pointer.
Clone(n) == << "clone", n >>
NullObject == << "nullptr", 0 >>

VARIABLES
  cfg,            \* constructor arguments: mFileName, mFileFormat, mForceRaster, mPainter
  printerSupport, \* build has QPrinter
  mSaveWorldFile,
  mAnnotations,   \* owned clones
  mDecorations,
  mError,
  canceled,       \* QgsTask's cancellation flag, read by isCanceled()
  mJobMutex,      \* Free, or the thread holding the lock
  mJob,           \* the job handle
  jobAlive,       \* the job object exists (constructed, not yet destroyed)
  jobCancelRequests, \* cancelWithoutBlocking() calls the job received
  pc,             \* position of the worker
  cpc,            \* position of each cancel() caller
  seen,           \* per cancel() caller: the handle value it read at line 68
  issued,         \* per cancel() caller: cancelWithoutBlocking() calls it made
  destPainter,    \* run()'s local
  img,            \* run()'s local: "null" or "valid"
  printer,        \* run()'s local: "null" or "valid"
  idx,            \* loop position in the decoration / annotation loop
  ops,            \* the externally visible operations run() performed, in order
  access,         \* accesses to mJob: who, what, whether the mutex was held
  result,         \* run()'s return value: "none", "true", "false"
  canceledAtStart,\* isCanceled() when run() was entered
  canceledAtCreate, \* isCanceled() when run() created the job
  stoppedBy,      \* why run() returned false: "none", "canceled", "failure"
  signals,        \* signals emitted by finished()
  mMapSettings,   \* constructor argument: extent and output size
  painterLog,     \* the calls the annotation loop made on context.painter(), in order
  addCallsLeft,   \* addAnnotations calls the caller still makes
  owned,          \* the objects the pointers in mAnnotations point to
  nCloneCalls,    \* clone() calls made so far
  deletions       \* the objects the task deleted, in order

vars == << cfg, printerSupport, mSaveWorldFile, mAnnotations, mDecorations,
           mMapSettings, painterLog, addCallsLeft, owned, nCloneCalls, deletions,
           mError, canceled, mJobMutex, mJob, jobAlive, jobCancelRequests,
           pc, cpc, seen, issued, destPainter, img, printer, idx, ops,
           access, result, canceledAtStart, canceledAtCreate, stoppedBy, signals >>

configVars == << cfg, printerSupport, mSaveWorldFile, mMapSettings >>
painterVars == << painterLog >>
ownVars == << addCallsLeft, owned, nCloneCalls, deletions >>
setupVars == << mAnnotations, mDecorations >>
jobVars == << mJobMutex, mJob, jobAlive, jobCancelRequests, access >>
cancelVars == << cpc, seen, issued, canceled >>
surfaceVars == << destPainter, img, printer >>
endVars == << result, stoppedBy, signals >>

Op(name, arg, on) == [op |-> name, arg |-> arg, on |-> on]

isCanceled == canceled

\* ------------------------------------------------------------ construction
\* The state of a newly constructed task and of the threads around it.
Constructed ==
  /\ mError = NoError
  /\ canceled = FALSE
  /\ mJobMutex = Free
  /\ mJob = NoJob
  /\ jobAlive = FALSE
  /\ jobCancelRequests = 0
  /\ pc = "notStarted"
  /\ cpc = [c \in Cancelers |-> "idle"]
  /\ seen = [c \in Cancelers |-> NoJob]
  /\ issued = [c \in Cancelers |-> 0]
  /\ destPainter = NoPainter
  /\ img = "null"
  /\ printer = "null"
  /\ idx = 0
  /\ ops = << >>
  /\ access = {}
  /\ result = "none"
  /\ canceledAtStart = FALSE
  /\ canceledAtCreate = FALSE
  /\ stoppedBy = "none"
  /\ signals = << >>
  /\ painterLog = << >>
  /\ deletions = << >>

\* The build option is only read for the PDF format, the save-worldfile flag
\* only when a file is written.
Init ==
  /\ cfg \in FileConfigs \cup PainterConfigs
  /\ printerSupport \in (IF cfg.mFileFormat = "PDF" THEN BOOLEAN ELSE {TRUE})
  /\ mSaveWorldFile \in (IF cfg.mFileName # "" THEN BOOLEAN ELSE {FALSE})
  /\ mMapSettings = DefaultMapSettings
  /\ mAnnotations = << >>
  /\ mDecorations = << >>
  /\ addCallsLeft = 1
  /\ owned = << >>
  /\ nCloneCalls = 0
  /\ Constructed

\* A task whose annotations and decorations have been set, about to be run
\* while NumCancelers threads call cancel().
InitConcurrent ==
  /\ cfg \in ConcurrentConfigs
  /\ printerSupport = TRUE
  /\ mSaveWorldFile = (cfg.mFileName # "")
  /\ mMapSettings = DefaultMapSettings
  /\ mAnnotations \in ConcurrentAnnotationLists
  /\ mDecorations = << 1 >>
  /\ addCallsLeft = 0
  /\ owned = [i \in 1..Len(mAnnotations) |-> Clone(i)]
  /\ nCloneCalls = Len(mAnnotations)
  /\ Constructed

\* A task painting on the caller's painter, for every extent, output size and
\* placement of one annotation.
InitPlacement ==
  /\ cfg \in { c \in PainterConfigs : c.mPainter = ExtPainter }
  /\ printerSupport = TRUE
  /\ mSaveWorldFile = FALSE
  /\ mMapSettings \in PlacementMapSettings
  /\ mAnnotations = << >>
  /\ mDecorations = << >>
  /\ addCallsLeft = 1
  /\ owned = << >>
  /\ nCloneCalls = 0
  /\ Constructed

\* A task painting on the caller's painter whose caller makes up to
\* MaxAddCalls calls of addAnnotations.
InitOwnership ==
  /\ cfg \in { c \in PainterConfigs : c.mPainter = ExtPainter }
  /\ printerSupport = TRUE
  /\ mSaveWorldFile = FALSE
  /\ mMapSettings = DefaultMapSettings
  /\ mAnnotations = << >>
  /\ mDecorations = << >>
  /\ addCallsLeft = MaxAddCalls
  /\ owned = << >>
  /\ nCloneCalls = 0
  /\ Constructed

\* ------------------------------------------------------------ setup
\* qDeleteAll( mAnnotations ): delete on every pointer of the list; deleting
\* a null pointer does nothing.
qDeleteAll(objects) == SelectSeq(objects, LAMBDA o : o # NullObject)

\* addAnnotations that forgets the clones it holds without deleting them.
addAnnotations_NoDelete(annotations) ==
  /\ pc = "notStarted"
  /\ addCallsLeft > 0
  /\ addCallsLeft' = addCallsLeft - 1
  /\ deletions' = deletions
  /\ mAnnotations' = [i \in 1..Len(annotations) |-> annotations[i]]
  /\ owned' = [i \in 1..Len(annotations) |->
                 IF annotations[i].isNull THEN NullObject ELSE Clone(nCloneCalls + i)]
  /\ nCloneCalls' = nCloneCalls + Len(annotations)
  /\ UNCHANGED << configVars, painterVars, mDecorations, mError, jobVars, cancelVars, pc,
                  surfaceVars, idx, ops, endVars, canceledAtStart, canceledAtCreate >>

\* lines 47-57: the owned clones are destroyed and replaced by one clone per
\* element of the argument, in order.
addAnnotations(annotations) ==
  /\ pc = "notStarted"
  /\ addCallsLeft > 0
  /\ addCallsLeft' = addCallsLeft - 1
  /\ deletions' = deletions \o qDeleteAll(owned)
  /\ mAnnotations' = [i \in 1..Len(annotations) |-> annotations[i]]
  /\ owned' = [i \in 1..Len(annotations) |->
                 IF annotations[i].isNull THEN NullObject ELSE Clone(nCloneCalls + i)]
  /\ nCloneCalls' = nCloneCalls + Len(annotations)
  /\ UNCHANGED << configVars, painterVars, mDecorations, mError, jobVars, cancelVars, pc,
                  surfaceVars, idx, ops, endVars, canceledAtStart, canceledAtCreate >>

addDecorations(decorations) ==
  /\ pc = "notStarted"
  /\ mDecorations' = decorations
  /\ UNCHANGED << configVars, painterVars, ownVars, mAnnotations, mError, jobVars, cancelVars, pc,
                  surfaceVars, idx, ops, endVars, canceledAtStart, canceledAtCreate >>

\* ------------------------------------------------------------ cancel()
workerVars == << pc, surfaceVars, idx, ops, endVars, canceledAtStart, canceledAtCreate, mError >>

\* CancelLock that does not take the lock.
CancelLock_NoLock(c) ==
  /\ cpc[c] = "idle"
  /\ cpc' = [cpc EXCEPT ![c] = "test"]
  /\ UNCHANGED << configVars, painterVars, ownVars, setupVars, workerVars, jobVars, seen, issued, canceled >>

\* line 67: mJobMutex.lock()
CancelLock(c) ==
  /\ cpc[c] = "idle"
  /\ mJobMutex = Free
  /\ mJobMutex' = Canceler(c)
  /\ cpc' = [cpc EXCEPT ![c] = "test"]
  /\ UNCHANGED << configVars, painterVars, ownVars, setupVars, workerVars, mJob, jobAlive,
                  jobCancelRequests, access, seen, issued, canceled >>

\* line 68: if ( mJob )
CancelTestJob(c) ==
  /\ cpc[c] = "test"
  /\ seen' = [seen EXCEPT ![c] = mJob]
  /\ access' = access \cup { [who |-> "cancel", what |-> "read", locked |-> mJobMutex = Canceler(c)] }
  /\ cpc' = [cpc EXCEPT ![c] = IF mJob # NoJob THEN "request" ELSE "unlock"]
  /\ UNCHANGED << configVars, painterVars, ownVars, setupVars, workerVars, mJobMutex, mJob, jobAlive,
                  jobCancelRequests, issued, canceled >>

\* line 69: mJob->cancelWithoutBlocking()
CancelRequest(c) ==
  /\ cpc[c] = "request"
  /\ jobCancelRequests' = jobCancelRequests + 1
  /\ issued' = [issued EXCEPT ![c] = @ + 1]
  /\ access' = access \cup
       { [who |-> "cancel", what |-> IF jobAlive THEN "call" ELSE "callDestroyed",
          locked |-> mJobMutex = Canceler(c)] }
  /\ cpc' = [cpc EXCEPT ![c] = "unlock"]
  /\ UNCHANGED << configVars, painterVars, ownVars, setupVars, workerVars, mJobMutex, mJob, jobAlive,
                  seen, canceled >>

\* line 70: mJobMutex.unlock()
CancelUnlock(c) ==
  /\ cpc[c] = "unlock"
  /\ mJobMutex' = Free
  /\ cpc' = [cpc EXCEPT ![c] = "taskCancel"]
  /\ UNCHANGED << configVars, painterVars, ownVars, setupVars, workerVars, mJob, jobAlive,
                  jobCancelRequests, access, seen, issued, canceled >>

\* line 72: QgsTask::cancel() marks the task canceled
CancelTask(c) ==
  /\ cpc[c] = "taskCancel"
  /\ canceled' = TRUE
  /\ cpc' = [cpc EXCEPT ![c] = "done"]
  /\ UNCHANGED << configVars, painterVars, ownVars, setupVars, workerVars, jobVars, seen, issued >>

\* ------------------------------------------------------------ run()
Return(value, why) ==
  /\ pc' = "returned"
  /\ result' = value
  /\ stoppedBy' = why

\* RunStart with a test of the canceled flag on entry.
RunStart_CheckFirst ==
  /\ pc = "notStarted"
  /\ canceledAtStart' = isCanceled
  /\ IF isCanceled
       THEN Return("false", "canceled") /\ UNCHANGED signals
       ELSE pc' = "resolve" /\ UNCHANGED endVars
  /\ UNCHANGED << configVars, painterVars, ownVars, setupVars, jobVars, cancelVars, surfaceVars,
                  idx, ops, mError, canceledAtCreate >>

\* The worker enters run().
RunStart ==
  /\ pc = "notStarted"
  /\ pc' = "resolve"
  /\ canceledAtStart' = isCanceled
  /\ UNCHANGED << configVars, painterVars, ownVars, setupVars, jobVars, cancelVars, surfaceVars,
                  idx, ops, endVars, mError, canceledAtCreate >>

\* RunResolveSurface without the img.isNull() test of lines 113-117: run()
\* goes on with a painter on the null image.
RunResolveSurface_NoNullTest(allocated) ==
  /\ pc = "resolve"
  /\ LET pdf == cfg.mFileFormat = "PDF"
         painter1 == IF pdf /\ printerSupport /\ ~cfg.mForceRaster
                       THEN PrinterPainter ELSE cfg.mPainter
         ops1 == IF pdf /\ printerSupport
                   THEN Append(ops, Op("newPrinter", 0, PrinterPainter)) ELSE ops
     IN IF pdf /\ ~printerSupport
          THEN /\ mError' = ImageUnsupportedFormat
               /\ Return("false", "failure")
               /\ UNCHANGED << surfaceVars, ops, signals >>
          ELSE /\ img' = IF painter1 = NoPainter /\ allocated THEN "valid" ELSE img
               /\ destPainter' = IF painter1 = NoPainter THEN ImgPainter ELSE painter1
               /\ printer' = IF pdf THEN "valid" ELSE printer
               /\ ops' = IF painter1 # NoPainter THEN ops1
                         ELSE Append(ops1, Op("newImage", 0,
                                IF allocated THEN ImgPainter ELSE NoPainter))
               /\ pc' = "lockCreate"
               /\ UNCHANGED << mError, endVars >>
  /\ UNCHANGED << configVars, painterVars, ownVars, setupVars, jobVars, cancelVars, idx,
                  canceledAtStart, canceledAtCreate >>

\* lines 77-127: the painter to draw on.  allocated is the outcome of the
\* QImage allocation, !img.isNull().
RunResolveSurface(allocated) ==
  /\ pc = "resolve"
  /\ LET pdf == cfg.mFileFormat = "PDF"
         painter1 == IF pdf /\ printerSupport /\ ~cfg.mForceRaster
                       THEN PrinterPainter ELSE cfg.mPainter
         ops1 == IF pdf /\ printerSupport
                   THEN Append(ops, Op("newPrinter", 0, PrinterPainter)) ELSE ops
     IN IF pdf /\ ~printerSupport
          THEN \* lines 104-105
               /\ mError' = ImageUnsupportedFormat
               /\ Return("false", "failure")
               /\ UNCHANGED << surfaceVars, ops, signals >>
          ELSE IF painter1 = NoPainter
            THEN IF ~allocated
                   THEN \* lines 115-116
                        /\ mError' = ImageAllocationFail
                        /\ Return("false", "failure")
                        /\ printer' = IF pdf THEN "valid" ELSE printer
                        /\ ops' = Append(ops1, Op("newImage", 0, NoPainter))
                        /\ UNCHANGED << destPainter, img, signals >>
                   ELSE \* lines 119-123
                        /\ img' = "valid"
                        /\ destPainter' = ImgPainter
                        /\ printer' = IF pdf THEN "valid" ELSE printer
                        /\ ops' = Append(ops1, Op("newImage", 0, ImgPainter))
                        /\ pc' = "lockCreate"
                        /\ UNCHANGED << mError, endVars >>
            ELSE /\ destPainter' = painter1
                 /\ printer' = IF pdf THEN "valid" ELSE printer
                 /\ ops' = ops1
                 /\ pc' = "lockCreate"
                 /\ UNCHANGED << img, mError, endVars >>
  /\ UNCHANGED << configVars, painterVars, ownVars, setupVars, jobVars, cancelVars, idx,
                  canceledAtStart, canceledAtCreate >>

\* line 129: mJobMutex.lock()
RunLockCreate ==
  /\ pc = "lockCreate"
  /\ mJobMutex = Free
  /\ mJobMutex' = Worker
  /\ pc' = "create"
  /\ UNCHANGED << configVars, painterVars, ownVars, setupVars, cancelVars, surfaceVars, idx, ops,
                  endVars, canceledAtStart, canceledAtCreate, mError, mJob, jobAlive,
                  jobCancelRequests, access >>

\* line 130: mJob.reset( new QgsMapRendererCustomPainterJob( ... ) )
RunCreateJob ==
  /\ pc = "create"
  /\ mJob' = TheJob
  /\ jobAlive' = TRUE
  /\ access' = access \cup { [who |-> "run", what |-> "create", locked |-> mJobMutex = Worker] }
  /\ ops' = Append(ops, Op("newJob", 0, destPainter))
  /\ pc' = "unlockCreate"
  /\ canceledAtCreate' = isCanceled
  /\ UNCHANGED << configVars, painterVars, ownVars, setupVars, cancelVars, surfaceVars, idx,
                  endVars, canceledAtStart, mError, mJobMutex, jobCancelRequests >>

\* RunUnlockCreate with the unlock left out: the lock stays held over the
\* render call.
RunUnlockCreate_NoUnlock ==
  /\ pc = "unlockCreate"
  /\ pc' = "callRender"
  /\ UNCHANGED << configVars, painterVars, ownVars, setupVars, cancelVars, surfaceVars, idx, ops,
                  endVars, canceledAtStart, canceledAtCreate, mError, jobVars >>

\* line 131: mJobMutex.unlock()
RunUnlockCreate ==
  /\ pc = "unlockCreate"
  /\ mJobMutex' = Free
  /\ pc' = "callRender"
  /\ UNCHANGED << configVars, painterVars, ownVars, setupVars, cancelVars, surfaceVars, idx, ops,
                  endVars, canceledAtStart, canceledAtCreate, mError, mJob, jobAlive,
                  jobCancelRequests, access >>

\* line 132: mJob->renderSynchronously() is entered
RunCallRender ==
  /\ pc = "callRender"
  /\ access' = access \cup { [who |-> "run", what |-> "deref", locked |-> mJobMutex = Worker] }
  /\ pc' = "rendering"
  /\ UNCHANGED << configVars, painterVars, ownVars, setupVars, cancelVars, surfaceVars, idx, ops,
                  endVars, canceledAtStart, canceledAtCreate, mError, mJobMutex, mJob, jobAlive,
                  jobCancelRequests >>

\* line 132: renderSynchronously() returns (the layers are drawn, or the job
\* stopped early on a cancel request)
RunRenderReturns ==
  /\ pc = "rendering"
  /\ ops' = Append(ops, Op("renderLayers", jobCancelRequests, destPainter))
  /\ pc' = "lockClear"
  /\ UNCHANGED << configVars, painterVars, ownVars, setupVars, cancelVars, surfaceVars, idx,
                  endVars, canceledAtStart, canceledAtCreate, mError, jobVars >>

\* RunLockClear that does not wait for the mutex.
RunLockClear_NoLock ==
  /\ pc = "lockClear"
  /\ pc' = "clear"
  /\ UNCHANGED << configVars, painterVars, ownVars, setupVars, cancelVars, surfaceVars, idx, ops,
                  endVars, canceledAtStart, canceledAtCreate, mError, mJob, jobAlive,
                  jobCancelRequests, access, mJobMutex >>

\* line 134: mJobMutex.lock()
RunLockClear ==
  /\ pc = "lockClear"
  /\ mJobMutex = Free
  /\ mJobMutex' = Worker
  /\ pc' = "clear"
  /\ UNCHANGED << configVars, painterVars, ownVars, setupVars, cancelVars, surfaceVars, idx, ops,
                  endVars, canceledAtStart, canceledAtCreate, mError, mJob, jobAlive,
                  jobCancelRequests, access >>

\* RunClearJob that leaves the handle as it is.
RunClearJob_NoReset ==
  /\ pc = "clear"
  /\ access' = access \cup { [who |-> "run", what |-> "clear", locked |-> mJobMutex = Worker] }
  /\ pc' = "unlockClear"
  /\ UNCHANGED << configVars, painterVars, ownVars, setupVars, cancelVars, surfaceVars, idx, ops,
                  endVars, canceledAtStart, canceledAtCreate, mError, mJobMutex, jobCancelRequests,
                  mJob, jobAlive >>

\* line 135: mJob.reset( nullptr )
RunClearJob ==
  /\ pc = "clear"
  /\ mJob' = NoJob
  /\ jobAlive' = FALSE
  /\ access' = access \cup { [who |-> "run", what |-> "clear", locked |-> mJobMutex = Worker] }
  /\ pc' = "unlockClear"
  /\ UNCHANGED << configVars, painterVars, ownVars, setupVars, cancelVars, surfaceVars, idx, ops,
                  endVars, canceledAtStart, canceledAtCreate, mError, mJobMutex, jobCancelRequests >>

\* line 136: mJobMutex.unlock()
RunUnlockClear ==
  /\ pc = "unlockClear"
  /\ mJobMutex' = Free
  /\ pc' = "checkCanceled"
  /\ UNCHANGED << configVars, painterVars, ownVars, setupVars, cancelVars, surfaceVars, idx, ops,
                  endVars, canceledAtStart, canceledAtCreate, mError, mJob, jobAlive,
                  jobCancelRequests, access >>

\* Where the worker goes after the decoration loop has handled index i - 1,
\* and after the annotation loop has.
AfterAnnotation(i) == IF i > Len(mAnnotations) THEN "finalize" ELSE "annotations"
AfterDecoration(i) == IF i > Len(mDecorations) THEN AfterAnnotation(1) ELSE "decorations"

\* RunCheckCanceled with the check left out.
RunCheckCanceled_NoCheck ==
  /\ pc = "checkCanceled"
  /\ pc' = AfterDecoration(1)
  /\ idx' = 1
  /\ UNCHANGED << configVars, painterVars, ownVars, setupVars, jobVars, cancelVars, surfaceVars,
                  ops, canceledAtStart, canceledAtCreate, mError, endVars >>

\* lines 138-139: if ( isCanceled() ) return false;
RunCheckCanceled ==
  /\ pc = "checkCanceled"
  /\ IF isCanceled
       THEN /\ Return("false", "canceled")
            /\ UNCHANGED << idx, signals >>
       ELSE /\ pc' = AfterDecoration(1)
            /\ idx' = 1
            /\ UNCHANGED endVars
  /\ UNCHANGED << configVars, painterVars, ownVars, setupVars, jobVars, cancelVars, surfaceVars,
                  ops, canceledAtStart, canceledAtCreate, mError >>

\* RunDecoration walking the list from its end.
RunDecoration_Reversed ==
  /\ pc = "decorations"
  /\ ops' = Append(ops, Op("decoration", mDecorations[Len(mDecorations) + 1 - idx],
                           destPainter))
  /\ idx' = IF idx + 1 > Len(mDecorations) THEN 1 ELSE idx + 1
  /\ pc' = AfterDecoration(idx + 1)
  /\ UNCHANGED << configVars, painterVars, ownVars, setupVars, jobVars, cancelVars, surfaceVars,
                  endVars, canceledAtStart, canceledAtCreate, mError >>

\* lines 145-148: one decoration
RunDecoration ==
  /\ pc = "decorations"
  /\ ops' = Append(ops, Op("decoration", mDecorations[idx], destPainter))
  /\ idx' = IF idx + 1 > Len(mDecorations) THEN 1 ELSE idx + 1
  /\ pc' = AfterDecoration(idx + 1)
  /\ UNCHANGED << configVars, painterVars, ownVars, setupVars, jobVars, cancelVars, surfaceVars,
                  endVars, canceledAtStart, canceledAtCreate, mError >>

\* Skipped without the layer test of line 160.
Skipped_NoLayerTest(annotation) ==
  \/ annotation.isNull
  \/ ~annotation.visible

\* lines 156-163: the annotations the loop leaves out
Skipped(annotation) ==
  \/ annotation.isNull
  \/ ~annotation.visible
  \/ annotation.mapLayer # 0 /\ annotation.mapLayer \notin MapLayers

\* lines 171 and 176: the x of the anchor
itemX(annotation) ==
  IF annotation.hasFixedMapPosition
    THEN DDiv(DMul(Double(mMapSettings.outputWidth),
                   DSub(annotation.mapPosition[1], mMapSettings.xMinimum)),
              mMapSettings.width)
    ELSE DMul(annotation.relativePosition[1], Double(mMapSettings.outputWidth))

\* itemY measured from the bottom of the output.
itemY_NoFlip(annotation) ==
  IF annotation.hasFixedMapPosition
    THEN DMul(Double(mMapSettings.outputHeight),
              DDiv(DSub(annotation.mapPosition[2], mMapSettings.yMinimum),
                   mMapSettings.height))
    ELSE DMul(annotation.relativePosition[2], Double(mMapSettings.outputHeight))

\* lines 172 and 177: the y of the anchor
itemY(annotation) ==
  IF annotation.hasFixedMapPosition
    THEN DMul(Double(mMapSettings.outputHeight),
              DSub(Double(1),
                   DDiv(DSub(annotation.mapPosition[2], mMapSettings.yMinimum),
                        mMapSettings.height)))
    ELSE DMul(annotation.relativePosition[2], Double(mMapSettings.outputHeight))

PainterCall(name, i, x, y) == [call |-> name, arg |-> i, x |-> x, y |-> y]

\* PainterCalls without the restore of line 183.
PainterCalls_NoRestore(annotation, i) ==
  << PainterCall("save", i, Double(0), Double(0)),
     PainterCall("setRenderHint", i, Double(0), Double(0)),
     PainterCall("translate", i, itemX(annotation), itemY(annotation)),
     PainterCall("render", i, Double(0), Double(0)) >>

\* lines 165-183: the calls made on the painter for the i-th annotation
PainterCalls(annotation, i) ==
  << PainterCall("save", i, Double(0), Double(0)),
     PainterCall("setRenderHint", i, Double(0), Double(0)),
     PainterCall("translate", i, itemX(annotation), itemY(annotation)),
     PainterCall("render", i, Double(0), Double(0)),
     PainterCall("restore", i, Double(0), Double(0)) >>

\* RunAnnotation without the cancellation check of lines 153-154.
RunAnnotation_NoCheck ==
  /\ pc = "annotations"
  /\ ops' = IF Skipped(mAnnotations[idx]) THEN ops
            ELSE Append(ops, Op("annotation", idx, destPainter))
  /\ painterLog' = IF Skipped(mAnnotations[idx]) THEN painterLog
                   ELSE painterLog \o PainterCalls(mAnnotations[idx], idx)
  /\ idx' = idx + 1
  /\ pc' = AfterAnnotation(idx + 1)
  /\ UNCHANGED << configVars, ownVars, setupVars, jobVars, cancelVars, surfaceVars,
                  canceledAtStart, canceledAtCreate, mError, endVars >>

\* lines 151-184: one iteration of the annotation loop
RunAnnotation ==
  /\ pc = "annotations"
  /\ IF isCanceled
       THEN /\ Return("false", "canceled")
            /\ UNCHANGED << idx, ops, signals, painterLog >>
       ELSE /\ ops' = IF Skipped(mAnnotations[idx]) THEN ops
                      ELSE Append(ops, Op("annotation", idx, destPainter))
            /\ painterLog' = IF Skipped(mAnnotations[idx]) THEN painterLog
                             ELSE painterLog \o PainterCalls(mAnnotations[idx], idx)
            /\ idx' = idx + 1
            /\ pc' = AfterAnnotation(idx + 1)
            /\ UNCHANGED endVars
  /\ UNCHANGED << configVars, ownVars, setupVars, jobVars, cancelVars, surfaceVars,
                  canceledAtStart, canceledAtCreate, mError >>

\* line 186 with an empty file name, line 272
RunNoFile ==
  /\ pc = "finalize"
  /\ cfg.mFileName = ""
  /\ Return("true", "none")
  /\ UNCHANGED << configVars, painterVars, ownVars, setupVars, jobVars, cancelVars, surfaceVars,
                  idx, ops, signals, canceledAtStart, canceledAtCreate, mError >>

\* RunEndPainter without the test of the file name at line 186.
RunEndPainter_Always ==
  /\ pc = "finalize"
  /\ ops' = Append(ops, Op("end", 0, destPainter))
  /\ pc' = "output"
  /\ UNCHANGED << configVars, painterVars, ownVars, setupVars, jobVars, cancelVars, surfaceVars,
                  idx, endVars, canceledAtStart, canceledAtCreate, mError >>

\* lines 186-188: destPainter->end()
RunEndPainter ==
  /\ pc = "finalize"
  /\ cfg.mFileName # ""
  /\ ops' = Append(ops, Op("end", 0, destPainter))
  /\ pc' = "output"
  /\ UNCHANGED << configVars, painterVars, ownVars, setupVars, jobVars, cancelVars, surfaceVars,
                  idx, endVars, canceledAtStart, canceledAtCreate, mError >>

\* lines 190-198: the image is drawn on the printer
RunMergePdf ==
  /\ pc = "output"
  /\ cfg.mForceRaster /\ cfg.mFileFormat = "PDF"
  /\ ops' = Append(ops, Op("drawImage", 0, PrinterPainter))
  /\ IF mSaveWorldFile
       THEN pc' = "georefPdf" /\ UNCHANGED endVars
       ELSE Return("true", "none") /\ UNCHANGED signals
  /\ UNCHANGED << configVars, painterVars, ownVars, setupVars, jobVars, cancelVars, surfaceVars,
                  idx, canceledAtStart, canceledAtCreate, mError >>

\* lines 199-216, 272: opened is the outcome of GDALOpen
RunGeorefPdf(opened) ==
  /\ pc = "georefPdf"
  /\ ops' = ops \o << Op("GDALOpen", IF opened THEN 1 ELSE 0, NoPainter) >>
                 \o (IF opened THEN << Op("setGeoTransform", 0, NoPainter) >> ELSE << >>)
  /\ Return("true", "none")
  /\ UNCHANGED << configVars, painterVars, ownVars, setupVars, jobVars, cancelVars, surfaceVars,
                  idx, signals, canceledAtStart, canceledAtCreate, mError >>

\* line 222 not taken: PDF drawn directly on the printer, line 272
RunPdfDone ==
  /\ pc = "output"
  /\ ~cfg.mForceRaster /\ cfg.mFileFormat = "PDF"
  /\ Return("true", "none")
  /\ UNCHANGED << configVars, painterVars, ownVars, setupVars, jobVars, cancelVars, surfaceVars,
                  idx, ops, signals, canceledAtStart, canceledAtCreate, mError >>

\* RunSaveImage that returns false on a failed save without setting mError.
RunSaveImage_NoError(saved) ==
  /\ pc = "output"
  /\ cfg.mFileFormat # "PDF"
  /\ IF ~saved
       THEN /\ Return("false", "failure")
            /\ ops' = Append(ops, Op("saveFailed", 0, NoPainter))
            /\ UNCHANGED signals
       ELSE /\ ops' = Append(ops, Op("saveImage", 0, NoPainter))
            /\ IF mSaveWorldFile
                 THEN pc' = "georef" /\ UNCHANGED endVars
                 ELSE Return("true", "none") /\ UNCHANGED signals
  /\ UNCHANGED << configVars, painterVars, ownVars, setupVars, jobVars, cancelVars, surfaceVars,
                  idx, canceledAtStart, canceledAtCreate, mError >>

\* RunSaveImage with the return of line 228 missing: after a failed save it
\* goes on to the georeferencing.
RunSaveImage_NoReturn(saved) ==
  /\ pc = "output"
  /\ cfg.mFileFormat # "PDF"
  /\ ops' = Append(ops, Op(IF saved THEN "saveImage" ELSE "saveFailed", 0, NoPainter))
  /\ mError' = IF saved THEN mError ELSE ImageSaveFail
  /\ IF mSaveWorldFile
       THEN pc' = "georef" /\ UNCHANGED endVars
       ELSE Return("true", "none") /\ UNCHANGED signals
  /\ UNCHANGED << configVars, painterVars, ownVars, setupVars, jobVars, cancelVars, surfaceVars,
                  idx, canceledAtStart, canceledAtCreate >>

\* RunSaveImage without the format test of line 220: the image is saved
\* for PDF output too.
RunSaveImage_AnyFormat(saved) ==
  /\ pc = "output"
  /\ IF ~saved
       THEN /\ mError' = ImageSaveFail
            /\ Return("false", "failure")
            /\ ops' = Append(ops, Op("saveFailed", 0, NoPainter))
            /\ UNCHANGED signals
       ELSE /\ ops' = Append(ops, Op("saveImage", 0, NoPainter))
            /\ IF mSaveWorldFile
                 THEN pc' = "georef" /\ UNCHANGED endVars
                 ELSE Return("true", "none") /\ UNCHANGED signals
            /\ UNCHANGED mError
  /\ UNCHANGED << configVars, painterVars, ownVars, setupVars, jobVars, cancelVars, surfaceVars,
                  idx, canceledAtStart, canceledAtCreate >>

\* lines 222-231: saved is the outcome of img.save
RunSaveImage(saved) ==
  /\ pc = "output"
  /\ cfg.mFileFormat # "PDF"
  /\ IF ~saved
       THEN /\ mError' = ImageSaveFail
            /\ Return("false", "failure")
            /\ ops' = Append(ops, Op("saveFailed", 0, NoPainter))
            /\ UNCHANGED signals
       ELSE /\ ops' = Append(ops, Op("saveImage", 0, NoPainter))
            /\ IF mSaveWorldFile
                 THEN pc' = "georef" /\ UNCHANGED endVars
                 ELSE Return("true", "none") /\ UNCHANGED signals
            /\ UNCHANGED mError
  /\ UNCHANGED << configVars, painterVars, ownVars, setupVars, jobVars, cancelVars, surfaceVars,
                  idx, canceledAtStart, canceledAtCreate >>

\* RunGeoref that writes the world file whether or not the georeferencing was
\* embedded (skipWorldFile of line 243 never set).
RunGeoref_NoSkip(opened, created) ==
  /\ pc = "georef"
  /\ LET embedding == cfg.suffix \in {"tif", "tiff"}
     IN ops' = ops
          \o (IF embedding THEN << Op("GDALOpen", IF opened THEN 1 ELSE 0, NoPainter) >>
              ELSE << >>)
          \o (IF embedding /\ opened THEN << Op("setGeoTransform", 0, NoPainter) >>
              ELSE << >>)
          \o << Op("openWorldFile", IF created THEN 1 ELSE 0, NoPainter) >>
          \o (IF created THEN << Op("worldFile", 0, NoPainter) >> ELSE << >>)
  /\ Return("true", "none")
  /\ UNCHANGED << configVars, painterVars, ownVars, setupVars, jobVars, cancelVars, surfaceVars,
                  idx, signals, canceledAtStart, canceledAtCreate, mError >>

\* lines 231-268, 272: opened is the outcome of GDALOpen, created the outcome
\* of worldFile.open
RunGeoref(opened, created) ==
  /\ pc = "georef"
  /\ LET embedding == cfg.suffix \in {"tif", "tiff"}
         skipWorldFile == embedding /\ opened
     IN ops' = ops
          \o (IF embedding THEN << Op("GDALOpen", IF opened THEN 1 ELSE 0, NoPainter) >>
              ELSE << >>)
          \o (IF skipWorldFile THEN << Op("setGeoTransform", 0, NoPainter) >>
              ELSE << Op("openWorldFile", IF created THEN 1 ELSE 0, NoPainter) >>
                   \o (IF created THEN << Op("worldFile", 0, NoPainter) >> ELSE << >>))
  /\ Return("true", "none")
  /\ UNCHANGED << configVars, painterVars, ownVars, setupVars, jobVars, cancelVars, surfaceVars,
                  idx, signals, canceledAtStart, canceledAtCreate, mError >>

\* ------------------------------------------------------------ finished()
\* finished with the else of line 282 missing: errorOccurred is emitted in
\* either case.
finished_NoElse(value) ==
  /\ pc = "returned"
  /\ deletions' = deletions \o qDeleteAll(owned)
  /\ mAnnotations' = << >>
  /\ owned' = << >>
  /\ UNCHANGED << addCallsLeft, nCloneCalls >>
  /\ signals' = (IF value
                   THEN Append(signals, [signal |-> "renderingComplete", error |-> NoError])
                   ELSE signals)
                \o << [signal |-> "errorOccurred", error |-> mError] >>
  /\ pc' = "finished"
  /\ UNCHANGED << configVars, painterVars, mDecorations, jobVars, cancelVars, surfaceVars,
                  idx, ops, result, stoppedBy, canceledAtStart, canceledAtCreate, mError >>

\* lines 275-284; the task manager calls it with run()'s return value.
finished(value) ==
  /\ pc = "returned"
  /\ deletions' = deletions \o qDeleteAll(owned)
  /\ mAnnotations' = << >>
  /\ owned' = << >>
  /\ UNCHANGED << addCallsLeft, nCloneCalls >>
  /\ signals' = Append(signals,
                  IF value THEN [signal |-> "renderingComplete", error |-> NoError]
                  ELSE [signal |-> "errorOccurred", error |-> mError])
  /\ pc' = "finished"
  /\ UNCHANGED << configVars, painterVars, mDecorations, jobVars, cancelVars, surfaceVars,
                  idx, ops, result, stoppedBy, canceledAtStart, canceledAtCreate, mError >>

\* ------------------------------------------------------------ specification
Cancel(c) ==
  \/ CancelLock(c)
  \/ CancelTestJob(c)
  \/ CancelRequest(c)
  \/ CancelUnlock(c)
  \/ CancelTask(c)

Run ==
  \/ RunStart
  \/ \E allocated \in BOOLEAN : RunResolveSurface(allocated)
  \/ RunLockCreate
  \/ RunCreateJob
  \/ RunUnlockCreate
  \/ RunCallRender
  \/ RunRenderReturns
  \/ RunLockClear
  \/ RunClearJob
  \/ RunUnlockClear
  \/ RunCheckCanceled
  \/ RunDecoration
  \/ RunAnnotation
  \/ RunNoFile
  \/ RunEndPainter
  \/ RunMergePdf
  \/ \E opened \in BOOLEAN : RunGeorefPdf(opened)
  \/ RunPdfDone
  \/ \E saved \in BOOLEAN : RunSaveImage(saved)
  \/ \E opened \in BOOLEAN, created \in BOOLEAN : RunGeoref(opened, created)

\* One cancel() call, every input.
Next ==
  \/ \E annotations \in AnnotationLists : addAnnotations(annotations)
  \/ \E decorations \in DecorationLists : addDecorations(decorations)
  \/ Cancel(1)
  \/ Run
  \/ finished(result = "true")

Spec == Init /\ [][Next]_vars

\* NumCancelers concurrent cancel() calls.
NextConcurrent ==
  \/ \E c \in Cancelers : Cancel(c)
  \/ Run
  \/ finished(result = "true")

SpecConcurrent == InitConcurrent /\ [][NextConcurrent]_vars

\* run() on the caller's painter: the steps a run without output file takes.
RunOnPainter ==
  \/ RunStart
  \/ \E allocated \in BOOLEAN : RunResolveSurface(allocated)
  \/ RunLockCreate
  \/ RunCreateJob
  \/ RunUnlockCreate
  \/ RunCallRender
  \/ RunRenderReturns
  \/ RunLockClear
  \/ RunClearJob
  \/ RunUnlockClear
  \/ RunCheckCanceled
  \/ RunAnnotation
  \/ RunNoFile

\* One placed annotation, no cancel() call.
NextPlacement ==
  \/ \E a \in PlacedAnnotations : addAnnotations(<< a >>)
  \/ RunOnPainter
  \/ finished(result = "true")

SpecPlacement == InitPlacement /\ [][NextPlacement]_vars

\* Up to MaxAddCalls calls of addAnnotations, no cancel() call.
NextOwnership ==
  \/ \E annotations \in OwnershipLists : addAnnotations(annotations)
  \/ RunOnPainter
  \/ finished(result = "true")

SpecOwnership == InitOwnership /\ [][NextOwnership]_vars

\* ------------------------------------------------------------ properties
Returned == pc \in {"returned", "finished"}
OpsNamed(names) == { i \in 1..Len(ops) : ops[i].op \in names }
Compositing == {"decoration", "annotation"}
Writing == {"saveImage", "drawImage", "setGeoTransform", "worldFile"}
SurfaceFailures == {ImageAllocationFail, ImageUnsupportedFormat}

\* C1 as stated: cancel() completed before run() started, so run() returns
\* false with the error code still at its initial value and renders no
\* decoration and no annotation.
C1_AsStated ==
  canceledAtStart =>
    /\ OpsNamed(Compositing) = {}
    /\ Returned => result = "false" /\ mError = NoError

\* C1, amended: cancel() completed before run() started, so run() returns
\* false and renders no decoration and no annotation; the error code stays
\* at its initial value unless resolving the surface failed first, and then
\* it is that failure's code and no job was constructed.
C1_CancelBeforeRun ==
  canceledAtStart =>
    /\ OpsNamed(Compositing) = {}
    /\ Returned =>
         /\ result = "false"
         /\ \/ stoppedBy = "canceled" /\ mError = NoError
            \/ /\ stoppedBy = "failure"
               /\ mError \in SurfaceFailures
               /\ OpsNamed({"newJob"}) = {}

C1_Witness ==
  /\ canceledAtStart
  /\ pc = "returned"
  /\ stoppedBy = "canceled"
  /\ mDecorations # << >>
  /\ \E i \in 1..Len(mAnnotations) : ~Skipped(mAnnotations[i])

AllDone == pc = "finished" /\ \A c \in Cancelers : cpc[c] = "done"

\* C2: with any interleaving of run() and the cancel() calls nothing
\* deadlocks: some thread can always step until all have finished; a cancel()
\* call waits at most for another cancel() call that can itself step, never
\* for the render call; after the render call run() waits at most for such a
\* cancel() call; and a cancel() call issues cancelWithoutBlocking() once if
\* it found the handle set under the lock and never otherwise.
C2_NoDeadlock ==
  /\ AllDone \/ ENABLED NextConcurrent
  /\ \A c \in Cancelers :
       (pc = "rendering" /\ cpc[c] # "done") =>
         \/ ENABLED Cancel(c)
         \/ \E d \in Cancelers \ {c} : mJobMutex = Canceler(d) /\ ENABLED Cancel(d)
  /\ pc \in {"lockClear", "clear", "unlockClear", "checkCanceled", "decorations",
             "annotations", "finalize", "output", "georef", "georefPdf"} =>
         \/ ENABLED Run
         \/ \E d \in Cancelers : mJobMutex = Canceler(d) /\ ENABLED Cancel(d)
  /\ \A c \in Cancelers :
       /\ issued[c] <= 1
       /\ cpc[c] \in {"idle", "test", "request"} => issued[c] = 0
       /\ cpc[c] \in {"unlock", "taskCancel", "done"} =>
            issued[c] = (IF seen[c] # NoJob THEN 1 ELSE 0)

C2_Witness ==
  /\ pc = "rendering"
  /\ \A c \in Cancelers : cpc[c] = "done" /\ issued[c] = 1

\* A step of the worker inside run().
RunStep == pc' # pc \/ idx' # idx \/ ops' # ops

\* C3 as stated: once the task is canceled, run() returns false and starts no
\* further decoration render, annotation render or write.
C3_AsStated ==
  [][(canceled /\ RunStep /\ ~Returned) =>
        /\ pc' = "returned" => result' = "false"
        /\ OpsNamed(Compositing \cup Writing)' = OpsNamed(Compositing \cup Writing)]_vars

\* C3, amended: the cancellation is observed at the check after the render
\* call and at the head of each iteration of the annotation loop; a step of
\* run() taken there with the task canceled returns false and performs
\* nothing else, and run() returns false without an error code only there.
C3_ObservedAtChecks ==
  [][/\ (canceled /\ RunStep /\ pc \in {"checkCanceled", "annotations"}) =>
          /\ pc' = "returned" /\ result' = "false" /\ stoppedBy' = "canceled"
          /\ ops' = ops /\ mError' = mError
     /\ (stoppedBy' = "canceled" /\ stoppedBy # "canceled") =>
          canceled /\ pc \in {"checkCanceled", "annotations"}]_vars

C3_Witness ==
  /\ pc = "returned"
  /\ stoppedBy = "canceled"
  /\ ~canceledAtStart
  /\ OpsNamed({"annotation"}) # {}
  /\ \E i \in 1..Len(mAnnotations) :
       ~Skipped(mAnnotations[i]) /\ \A j \in OpsNamed({"annotation"}) : ops[j].arg # i

\* C4: the worker does not hold the job mutex while renderSynchronously() is
\* in progress (it is free or held by a cancel() caller), and a thread that
\* has returned from run() or cancel() does not hold it.
C4_MutexNotHeldAcrossRender ==
  /\ pc = "rendering" => mJobMutex # Worker
  /\ Returned => mJobMutex # Worker
  /\ \A c \in Cancelers : cpc[c] \in {"taskCancel", "done"} => mJobMutex # Canceler(c)

C4_Witness ==
  /\ pc = "rendering"
  /\ \E c \in Cancelers : mJobMutex = Canceler(c) /\ cpc[c] = "request"
  /\ \E c \in Cancelers : cpc[c] = "done"

\* C5 as stated: every access to the job handle is made by a thread holding
\* the job mutex.
C5_AsStated == \A a \in access : a.locked

\* C5, amended: every write of the job handle (run() creating and clearing
\* it) and every access by cancel() (the test and the call through it) is
\* made holding the job mutex; the one access made without it is run()'s own
\* call through the handle that enters renderSynchronously(), made while the
\* handle is set and no thread can change it.
C5_HandleAccessLocked ==
  /\ \A a \in access : a.locked \/ (a.who = "run" /\ a.what = "deref")
  /\ pc \in {"callRender", "rendering"} => mJob = TheJob /\ jobAlive

C5_Witness ==
  /\ [who |-> "run", what |-> "deref", locked |-> FALSE] \in access
  /\ [who |-> "run", what |-> "clear", locked |-> TRUE] \in access
  /\ [who |-> "cancel", what |-> "call", locked |-> TRUE] \in access
  /\ [who |-> "cancel", what |-> "read", locked |-> TRUE] \in access

Renderable(a) == ~a.isNull /\ a.visible /\ (a.mapLayer = 0 \/ a.mapLayer \in MapLayers)
Times(i) == Cardinality({ j \in OpsNamed({"annotation"}) : ops[j].arg = i })

\* C6: an annotation that is null, invisible, or tied to a layer that is not
\* in the map settings' layer list is never rendered; no annotation is
\* rendered twice; and when run() returns true every visible annotation whose
\* layer is unset or in the layer list has been rendered exactly once.
C6_AnnotationFilter ==
  pc # "finished" =>
    /\ \A j \in OpsNamed({"annotation"}) : ops[j].arg \in 1..Len(mAnnotations)
    /\ \A i \in 1..Len(mAnnotations) :
         /\ Times(i) <= (IF Renderable(mAnnotations[i]) THEN 1 ELSE 0)
         /\ (pc = "returned" /\ result = "true") =>
              Times(i) = (IF Renderable(mAnnotations[i]) THEN 1 ELSE 0)

C6_Witness ==
  /\ pc = "returned"
  /\ result = "true"
  /\ Len(mAnnotations) = 2
  /\ mAnnotations[1].mapLayer = 2
  /\ mAnnotations[2].mapLayer = 1
  /\ Times(1) = 0
  /\ Times(2) = 1

\* C7: finished(result) emits exactly one signal: renderingComplete when
\* result is true, errorOccurred with the current error code when it is
\* false; nothing is emitted before it.
C7_OneTerminalSignal ==
  /\ pc # "finished" => signals = << >>
  /\ pc = "finished" =>
       /\ Len(signals) = 1
       /\ result = "true" => signals[1].signal = "renderingComplete"
       /\ result = "false" =>
            signals[1] = [signal |-> "errorOccurred", error |-> mError]

C7_Witness ==
  /\ pc = "finished"
  /\ result = "false"
  /\ signals = << [signal |-> "errorOccurred", error |-> ImageSaveFail] >>

\* C8: run() returns false with the error code at its initial value exactly
\* when it stopped at a cancellation check; every other failure sets the
\* code to one of the three error values before returning false; and when
\* run() returns true the code is the initial one.
C8_ErrorCode ==
  /\ ~Returned => mError = NoError /\ stoppedBy = "none" /\ result = "none"
  /\ Returned =>
       /\ result \in {"true", "false"}
       /\ (result = "false" /\ mError = NoError) <=> stoppedBy = "canceled"
       /\ stoppedBy = "canceled" => canceled
       /\ (result = "false" /\ stoppedBy # "canceled") =>
            /\ stoppedBy = "failure"
            /\ mError \in {ImageUnsupportedFormat, ImageAllocationFail, ImageSaveFail}
       /\ result = "true" => mError = NoError /\ stoppedBy = "none"

C8_Witness ==
  /\ pc = "returned"
  /\ result = "false"
  /\ mError = ImageSaveFail
  /\ canceled

NullImage == \E i \in 1..Len(ops) : ops[i] = Op("newImage", 0, NoPainter)

\* C9: a null raster buffer makes run() return false with
\* ImageAllocationFail, PDF output without printer support makes it return
\* false with ImageUnsupportedFormat, and in both cases no job was
\* constructed, nothing was rendered, the painter was not ended and nothing
\* was written.
C9_SurfaceFailure ==
  /\ NullImage => Returned /\ result = "false" /\ mError = ImageAllocationFail
  /\ (cfg.mFileFormat = "PDF" /\ ~printerSupport /\ pc \notin {"notStarted", "resolve"}) =>
       Returned /\ result = "false" /\ mError = ImageUnsupportedFormat
  /\ mError \in SurfaceFailures =>
       /\ Returned /\ result = "false"
       /\ OpsNamed({"newJob", "renderLayers", "end"} \cup Compositing \cup Writing) = {}
       /\ mJob = NoJob /\ ~jobAlive /\ \A a \in access : a.who = "cancel"

C9_Witness ==
  /\ pc = "returned"
  /\ mError = ImageAllocationFail
  /\ NullImage
  /\ mDecorations # << >>
  /\ \E i \in 1..Len(mAnnotations) : Renderable(mAnnotations[i])

\* C10: a task constructed with a painter draws the layers, decorations and
\* annotations on that painter only, never ends it, allocates no image and no
\* printer, and writes nothing.
C10_ExternalPainter ==
  cfg.mPainter = ExtPainter =>
    /\ \A i \in 1..Len(ops) :
         /\ ops[i].on = ExtPainter
         /\ ops[i].op \in {"newJob", "renderLayers", "decoration", "annotation"}
    /\ img = "null" /\ printer = "null"
    /\ destPainter = (IF pc \in {"notStarted", "resolve"} THEN NoPainter ELSE ExtPainter)
    /\ Returned => mError = NoError

C10_Witness ==
  /\ cfg.mPainter = ExtPainter
  /\ pc = "returned"
  /\ result = "true"
  /\ OpsNamed({"renderLayers"}) # {}
  /\ Cardinality(OpsNamed({"decoration"})) = MaxDecorations
  /\ OpsNamed({"annotation"}) # {}

\* A raster file written by img.save: not the PDF format, save succeeded.
SavedRaster == cfg.mFileFormat # "PDF" /\ OpsNamed({"saveImage"}) # {}
Embedded == OpsNamed({"setGeoTransform"})
Sidecar == OpsNamed({"worldFile"})
Did(name, arg) == \E i \in 1..Len(ops) : ops[i].op = name /\ ops[i].arg = arg

\* C11 as stated: for a raster file that was saved, with the save-worldfile
\* flag on and the suffix tif or tiff the georeferencing is embedded and no
\* sidecar is written, with any other suffix a sidecar is written, with the
\* flag off neither, and never both.
C11_AsStated ==
  (SavedRaster /\ Returned) =>
    /\ ~mSaveWorldFile => Embedded = {} /\ Sidecar = {}
    /\ (mSaveWorldFile /\ cfg.suffix \in {"tif", "tiff"}) => Embedded # {} /\ Sidecar = {}
    /\ (mSaveWorldFile /\ cfg.suffix \notin {"tif", "tiff"}) => Sidecar # {}
    /\ Embedded = {} \/ Sidecar = {}

\* C11, amended: for a raster file that was saved, with the flag off neither
\* is written; with the flag on and the suffix tif or tiff the
\* georeferencing is embedded, and no sidecar written, when the file could be
\* reopened for update, and otherwise the sidecar is written as for any
\* other suffix, provided the sidecar file could be opened; embedded
\* georeferencing and a sidecar are never both produced, and each at most
\* once.
C11_Georeferencing ==
  /\ Embedded = {} \/ Sidecar = {}
  /\ Cardinality(Embedded) <= 1 /\ Cardinality(Sidecar) <= 1
  /\ cfg.mFileFormat # "PDF" =>
       /\ Embedded \cup Sidecar # {} => SavedRaster /\ mSaveWorldFile
       /\ Embedded # {} => cfg.suffix \in {"tif", "tiff"}
       /\ OpsNamed({"GDALOpen"}) # {} => cfg.suffix \in {"tif", "tiff"}
  /\ (SavedRaster /\ Returned) =>
       /\ result = "true"
       /\ mSaveWorldFile =>
            /\ cfg.suffix \in {"tif", "tiff"} =>
                 Did("GDALOpen", 0) \/ Did("GDALOpen", 1)
            /\ Embedded # {} <=> Did("GDALOpen", 1)
            /\ Embedded = {} => Did("openWorldFile", 0) \/ Did("openWorldFile", 1)
            /\ Sidecar # {} <=> Did("openWorldFile", 1)

C11_Witness ==
  /\ pc = "returned"
  /\ cfg.suffix = "tif"
  /\ Did("GDALOpen", 0)
  /\ Sidecar # {}

\* C12: a failed img.save makes run() return false at once with
\* ImageSaveFail: nothing is written afterwards and the save is attempted
\* once.
C12_SaveFailure ==
  /\ Cardinality(OpsNamed({"saveImage", "saveFailed"})) <= 1
  /\ OpsNamed({"saveFailed"}) # {} =>
       /\ Returned /\ result = "false" /\ mError = ImageSaveFail
       /\ ops[Len(ops)].op = "saveFailed"
       /\ OpsNamed(Writing \cup {"GDALOpen", "openWorldFile"}) = {}
  /\ mError = ImageSaveFail => OpsNamed({"saveFailed"}) # {}

C12_Witness ==
  /\ pc = "returned"
  /\ mError = ImageSaveFail
  /\ mSaveWorldFile
  /\ cfg.suffix = "tif"
  /\ OpsNamed({"saveFailed"}) # {}

\* The phase of run() an operation belongs to.
Phase(name) ==
  CASE name \in {"newPrinter", "newImage"} -> "surface"
    [] name = "newJob" -> "job"
    [] name = "renderLayers" -> "layers"
    [] name = "decoration" -> "decorations"
    [] name = "annotation" -> "annotations"
    [] OTHER -> "finalize"
PhaseOrder == << "surface", "job", "layers", "decorations", "annotations", "finalize" >>
PhaseIndex(name) == CHOOSE k \in 1..Len(PhaseOrder) : PhaseOrder[k] = Phase(name)
OpsIn(name) == SelectSeq(ops, LAMBDA o : o.op = name)

\* C14: the operations on the surface come in a fixed order: the layer
\* render returns before any decoration, the decorations are rendered in
\* list order and all of them before any annotation, the annotations in list
\* order, and the surface is ended and the output written only after the
\* annotation loop has finished.
C14_DrawingOrder ==
  /\ \A i, j \in 1..Len(ops) :
       i < j => PhaseIndex(ops[i].op) <= PhaseIndex(ops[j].op)
  /\ Len(OpsIn("renderLayers")) <= 1
  /\ Len(OpsIn("decoration")) <= Len(mDecorations)
  /\ \A k \in 1..Len(OpsIn("decoration")) : OpsIn("decoration")[k].arg = mDecorations[k]
  /\ OpsNamed({"decoration"}) # {} => pc \notin {"checkCanceled"} /\ OpsNamed({"renderLayers"}) # {}
  /\ OpsNamed({"annotation", "end"} \cup Writing) # {} =>
       Len(OpsIn("decoration")) = Len(mDecorations)
  /\ \A i, j \in 1..Len(OpsIn("annotation")) :
       i < j => OpsIn("annotation")[i].arg < OpsIn("annotation")[j].arg
  /\ (OpsNamed({"end"} \cup Writing) # {} /\ pc # "finished") =>
       /\ pc \in {"output", "georef", "georefPdf", "returned"}
       /\ \A i \in 1..Len(mAnnotations) :
            Renderable(mAnnotations[i]) => Times(i) = 1

C14_Witness ==
  /\ pc = "returned"
  /\ result = "true"
  /\ Len(OpsIn("decoration")) = 2
  /\ Len(OpsIn("annotation")) = 2
  /\ OpsNamed({"end"}) # {}
  /\ OpsNamed({"saveImage"}) # {}

\* The positions of run() between the creation of the job and its clearing.
JobRunning == { "unlockCreate", "callRender", "rendering", "lockClear", "clear" }

\* C16: the job handle is non-null exactly between its creation and its
\* clearing, both done by run() under the mutex; at most one job is
\* constructed; the handle is null before run(), at the cancellation check,
\* during compositing and finalize, and once run() has returned.
C16_JobHandleLifecycle ==
  /\ (mJob # NoJob) <=> (pc \in JobRunning)
  /\ (mJob # NoJob) => jobAlive
  /\ Len(OpsIn("newJob")) <= 1
  /\ (pc \notin JobRunning /\ OpsNamed({"newJob"}) = {}) =>
       pc \in {"notStarted", "resolve", "lockCreate", "create", "returned", "finished"}
  /\ \A a \in access :
       (a.who = "run" /\ a.what \in {"create", "clear"}) => a.locked
  /\ (pc \in {"checkCanceled", "decorations", "annotations", "finalize",
              "output", "georef", "georefPdf"} \/ Returned) => mJob = NoJob

C16_Witness ==
  /\ pc = "returned"
  /\ OpsNamed({"newJob"}) # {}
  /\ jobCancelRequests = 1
  /\ mJob = NoJob
  /\ [who |-> "run", what |-> "clear", locked |-> TRUE] \in access

\* The operations that draw on, or close, the destination surface.
Drawing == {"renderLayers", "decoration", "annotation", "end"}
Pdf == cfg.mFileFormat = "PDF"

\* C17: for PDF output, without force-raster everything is drawn on the page
\* device and no raster buffer is allocated, merged or saved; with
\* force-raster everything is drawn on the raster buffer, which is merged
\* into the page device at most once, exactly once when run() returns true
\* for an output file that has a name, after the buffer's painter was ended
\* and after all compositing; in neither
\* case is the buffer saved as an image file or a sidecar file written.
C17_PdfForceRaster ==
  /\ (Pdf /\ ~cfg.mForceRaster) =>
       /\ \A i \in OpsNamed(Drawing) : ops[i].on = PrinterPainter
       /\ OpsNamed({"newImage", "drawImage"}) = {}
       /\ img = "null"
  /\ (Pdf /\ cfg.mForceRaster) =>
       /\ \A i \in OpsNamed(Drawing) : ops[i].on = ImgPainter
       /\ Len(OpsIn("drawImage")) <= 1
       /\ (Returned /\ result = "true" /\ cfg.mFileName # "") => Len(OpsIn("drawImage")) = 1
       /\ \A m \in OpsNamed({"drawImage"}) :
            /\ ops[m].on = PrinterPainter
            /\ \E e \in OpsNamed({"end"}) : e < m
            /\ \A i \in OpsNamed(Drawing) : i < m
            /\ \A k \in 1..Len(mDecorations) : Did("decoration", mDecorations[k])
            /\ pc # "finished" =>
                 \A k \in 1..Len(mAnnotations) :
                   Renderable(mAnnotations[k]) => Times(k) = 1
  /\ Pdf => OpsNamed({"saveImage", "saveFailed", "openWorldFile", "worldFile"}) = {}

C17_Witness ==
  /\ Pdf /\ cfg.mForceRaster
  /\ pc = "returned" /\ result = "true"
  /\ Len(OpsIn("drawImage")) = 1
  /\ Len(OpsIn("decoration")) = 2
  /\ Len(OpsIn("annotation")) >= 1

\* C19: cancelWithoutBlocking() is never called through a handle that run()
\* has cleared: a cancel() caller about to make the call holds the mutex and
\* the job it saw is still the live one, and run() clears the job only while
\* it holds the mutex itself.
C19_CancelOnLiveJob ==
  /\ \A a \in access : a.what # "callDestroyed"
  /\ \A c \in 1..NumCancelers :
       cpc[c] = "request" =>
         /\ mJobMutex = Canceler(c)
         /\ seen[c] = TheJob
         /\ mJob = TheJob /\ jobAlive
         /\ pc \in JobRunning \ {"clear"}
  /\ pc = "clear" => mJobMutex = Worker

C19_Witness ==
  /\ pc = "lockClear"
  /\ \E c \in 1..NumCancelers :
       /\ cpc[c] = "unlock"
       /\ issued[c] = 1
       /\ mJobMutex = Canceler(c)
  /\ [who |-> "cancel", what |-> "call", locked |-> TRUE] \in access

\* C20: a cancel() that finds no job handle sends no request; when it
\* completed before run() started, run() still resolves the surface,
\* constructs the job and calls renderSynchronously() on it, the job gets no
\* cancel request (no later cancel() is made), and run() stops at the check
\* after the render call, before any compositing.  The same holds when it
\* completed after run() started and before run() created the job.
C20_CancelBeforeJob ==
  /\ \A c \in 1..NumCancelers :
       (cpc[c] \in {"unlock", "taskCancel", "done"} /\ seen[c] = NoJob) => issued[c] = 0
  /\ canceledAtStart =>
       /\ jobCancelRequests = 0
       /\ pc \notin {"decorations", "annotations", "finalize", "output", "georef", "georefPdf"}
       /\ (pc \in JobRunning \cup {"unlockClear", "checkCanceled"}) =>
            OpsNamed({"newJob"}) # {}
       /\ (pc \in {"lockClear", "clear", "unlockClear", "checkCanceled"}) =>
            Did("renderLayers", 0)
       /\ Returned =>
            \/ /\ stoppedBy = "failure"
               /\ destPainter = NoPainter
            \/ /\ stoppedBy = "canceled"
               /\ destPainter # NoPainter
               /\ OpsNamed({"newJob"}) # {}
               /\ Did("renderLayers", 0)
               /\ ops[Len(ops)].op = "renderLayers"
  /\ canceledAtCreate =>
       /\ jobCancelRequests = 0
       /\ OpsNamed({"newJob"}) # {}
       /\ pc \notin {"decorations", "annotations", "finalize", "output", "georef", "georefPdf"}
       /\ (pc \in {"lockClear", "clear", "unlockClear", "checkCanceled"}) =>
            Did("renderLayers", 0)
       /\ Returned =>
            /\ stoppedBy = "canceled"
            /\ Did("renderLayers", 0)
            /\ ops[Len(ops)].op = "renderLayers"

C20_Witness ==
  /\ canceledAtStart
  /\ cpc[1] = "done" /\ seen[1] = NoJob /\ issued[1] = 0
  /\ pc = "returned"
  /\ stoppedBy = "canceled"
  /\ Did("renderLayers", 0)

\* The positions of painterLog holding a call of the given names.
PainterCallsNamed(names) == { k \in 1..Len(painterLog) : painterLog[k].call \in names }

\* The real numbers the anchor is stated in: (-1)^neg * m * 2^e with a
\* mantissa of any length, odd or zero, and no sign on zero.  Every double
\* is one of them; their differences and products are taken without rounding.
Exact(neg, m, e) == Normalize(neg /\ m # << >>, m, e)
Real(a) == Exact(a.neg, a.m, a.e)
Whole(n) == Exact(n < 0, Bits(Abs(n)), 0)
ENeg(a) == Exact(~a.neg, a.m, a.e)
EAbs(a) == Exact(FALSE, a.m, a.e)
ESub(a, b) ==
  LET low == IF a.e < b.e THEN a.e ELSE b.e
      x == ShiftLeft(a.m, a.e - low)
      y == ShiftLeft(b.m, b.e - low)
  IN IF a.neg # b.neg THEN Exact(a.neg /\ ~b.neg, BigAdd(x, y), low)
     ELSE IF BigLess(x, y) THEN Exact(~a.neg, BigSub(y, x), low)
     ELSE Exact(a.neg, BigSub(x, y), low)
EAdd(a, b) == ESub(a, ENeg(b))
EMul(a, b) == Exact(a.neg # b.neg, BigMul(a.m, b.m), a.e + b.e)
\* a * 2^k
EScale(a, k) == Exact(a.neg, a.m, a.e + k)
\* a <= b
ELessEq(a, b) == LET d == ESub(a, b) IN d.m = << >> \/ d.neg

\* x = p / q for a double x and real numbers p and q # 0
Equal(x, p, q) == x.class = "finite" /\ EMul(Real(x), q) = p
\* | x - p / q | <= | t / q | * 2^-k
Within(x, p, q, t, k) ==
  /\ x.class = "finite"
  /\ ELessEq(EAbs(ESub(EMul(Real(x), q), p)), EScale(EAbs(t), 0 - k))

\* The anchor of the claim in real numbers, for an annotation with a fixed
\* map position, as quotients by the extent's width and height:
\* X = XTimesWidth / width, q = (ay - ymin) / height = YRise / height and
\* Y = outputHeight * (1 - q) = YTimesHeight / height.
XTimesWidth(a) ==
  EMul(Whole(mMapSettings.outputWidth),
       ESub(Real(a.mapPosition[1]), Real(mMapSettings.xMinimum)))
YRise(a) == ESub(Real(a.mapPosition[2]), Real(mMapSettings.yMinimum))
YTimesHeight(a) ==
  EMul(Whole(mMapSettings.outputHeight), ESub(Real(mMapSettings.height), YRise(a)))
\* outputHeight * (1 + |q|) * |height|
YScaleTimesHeight(a) ==
  EMul(Whole(mMapSettings.outputHeight),
       EAdd(EAbs(Real(mMapSettings.height)), EAbs(YRise(a))))
\* The anchor of the claim for a relative position.
RelativeX(a) == EMul(Real(a.relativePosition[1]), Whole(mMapSettings.outputWidth))
RelativeY(a) == EMul(Real(a.relativePosition[2]), Whole(mMapSettings.outputHeight))
\* The map position is the middle of the extent, in x and in y.
MidX(a) ==
  ESub(Real(a.mapPosition[1]), Real(mMapSettings.xMinimum))
    = EScale(Real(mMapSettings.width), 0 - 1)
MidY(a) == YRise(a) = EScale(Real(mMapSettings.height), 0 - 1)
EmptyExtent(side) == side.class = "finite" /\ side.m = << >>

\* C13 as stated: the painter is translated to exactly
\* x = outputWidth * (ax - xmin) / width and
\* y = outputHeight * (1 - (ay - ymin) / height) for a fixed map position, so
\* to exactly (outputWidth/2, outputHeight/2) at the middle of the extent, and
\* to exactly (relX * outputWidth, relY * outputHeight) for a relative one.
C13_AsStated ==
  pc # "finished" =>
    \A k \in PainterCallsNamed({"translate"}) :
      LET a == mAnnotations[painterLog[k].arg]
          m == mMapSettings
          x == painterLog[k].x
          y == painterLog[k].y
      IN IF a.hasFixedMapPosition
           THEN /\ ~EmptyExtent(m.width) => Equal(x, XTimesWidth(a), Real(m.width))
                /\ ~EmptyExtent(m.height) => Equal(y, YTimesHeight(a), Real(m.height))
                /\ (~EmptyExtent(m.width) /\ MidX(a)) => x = Dyadic(m.outputWidth, 1)
                /\ (~EmptyExtent(m.height) /\ MidY(a)) => y = Dyadic(m.outputHeight, 1)
           ELSE /\ Equal(x, RelativeX(a), Whole(1))
                /\ Equal(y, RelativeY(a), Whole(1))

\* C13, amended: the anchor is the stated expression evaluated in doubles,
\* each operation rounded.  For a fixed map position and an extent of
\* non-zero width and height, x is within |X| * 2^-51 of
\* X = outputWidth * (ax - xmin) / width and y within
\* outputHeight * (1 + |q|) * 2^-51 of Y = outputHeight * (1 - q),
\* q = (ay - ymin) / height.  At the middle of the extent y is exactly
\* outputHeight/2, and x is within that bound of outputWidth/2 without having
\* to equal it.  With a width or height of zero the coordinate is infinite
\* or not a number.  For a relative position x is within |relX * outputWidth|
\* * 2^-53 of relX * outputWidth and y within |relY * outputHeight| * 2^-53 of
\* relY * outputHeight, with (0, 0) anchored at exactly (0, 0) and (1, 1) at
\* exactly the output size.
C13_Anchor ==
  pc # "finished" =>
    \A k \in PainterCallsNamed({"translate"}) :
      LET a == mAnnotations[painterLog[k].arg]
          m == mMapSettings
          x == painterLog[k].x
          y == painterLog[k].y
          rx == a.relativePosition[1]
          ry == a.relativePosition[2]
      IN IF a.hasFixedMapPosition
           THEN /\ IF EmptyExtent(m.width) THEN x.class \in {"inf", "nan"}
                   ELSE /\ Within(x, XTimesWidth(a), Real(m.width), XTimesWidth(a), 51)
                        /\ MidX(a) =>
                             Within(x, Whole(m.outputWidth), Whole(2), Whole(m.outputWidth), 51)
                /\ IF EmptyExtent(m.height) THEN y.class \in {"inf", "nan"}
                   ELSE /\ Within(y, YTimesHeight(a), Real(m.height), YScaleTimesHeight(a), 51)
                        /\ MidY(a) => y = Dyadic(m.outputHeight, 1)
           ELSE /\ Within(x, RelativeX(a), Whole(1), RelativeX(a), 53)
                /\ Within(y, RelativeY(a), Whole(1), RelativeY(a), 53)
                /\ (rx = Double(0) /\ ry = Double(0)) => (x = Double(0) /\ y = Double(0))
                /\ (rx = Double(1) /\ ry = Double(1)) =>
                     (x = Double(m.outputWidth) /\ y = Double(m.outputHeight))

\* An annotation at the middle of an extent whose anchor is not the middle
\* of the output: output width 3, xMinimum 0, width 1.5 + 2^-51 and map
\* position x = 0.75 + 2^-52 give x = 1.5 + 2^-52, while y is exactly half
\* the output height.
C13_Witness ==
  /\ pc = "returned"
  /\ mMapSettings = MapSettings(Double(0), Double(1), LongSide, LongSide, 3, 2)
  /\ \E k \in PainterCallsNamed({"translate"}) :
       LET a == mAnnotations[painterLog[k].arg]
           x == painterLog[k].x
       IN /\ a.hasFixedMapPosition
          /\ a.mapPosition[1] = DSub(Dyadic(3, 2), Dyadic(0 - 1, 52))
          /\ MidX(a) /\ MidY(a)
          /\ x = DSub(Dyadic(3, 1), Dyadic(0 - 1, 52))
          /\ x # Dyadic(3, 1)
          /\ ~Equal(x, XTimesWidth(a), Real(mMapSettings.width))
          /\ painterLog[k].y = Double(1)

\* A QPainter as the calls of a log leave it: the stack of saved states and
\* the translation in effect.
Origin == << Double(0), Double(0) >>
\* a + b on doubles, for the translations a painter adds up
DAdd(a, b) == DSub(a, [b EXCEPT !.neg = (b.class # "nan") /\ ~b.neg])
RECURSIVE PainterAfter(_)
PainterAfter(log) ==
  IF log = << >> THEN [saved |-> << >>, at |-> Origin]
  ELSE LET before == PainterAfter(SubSeq(log, 1, Len(log) - 1))
           c == log[Len(log)]
       IN CASE c.call = "save" ->
                 [saved |-> Append(before.saved, before.at), at |-> before.at]
            [] c.call = "translate" ->
                 [saved |-> before.saved,
                  at |-> << DAdd(before.at[1], c.x), DAdd(before.at[2], c.y) >>]
            [] c.call = "restore" /\ before.saved # << >> ->
                 [saved |-> SubSeq(before.saved, 1, Len(before.saved) - 1),
                  at |-> before.saved[Len(before.saved)]]
            [] OTHER -> before
PainterBefore(k) == PainterAfter(SubSeq(painterLog, 1, k - 1))

\* C15: every translate and render of the annotation loop is made at save
\* depth one, between the save and the restore of its own annotation; an
\* annotation is rendered with its own translation only; and whenever run()
\* is at the start of an iteration, past the loop or has returned, the
\* painter is at the save depth and translation it had before the loop.
C15_SaveRestore ==
  /\ \A k \in PainterCallsNamed({"translate", "render"}) :
       /\ Len(PainterBefore(k).saved) = 1
       /\ \E s \in 1..(k - 1), r \in (k + 1)..Len(painterLog) :
            /\ painterLog[s].call = "save" /\ painterLog[s].arg = painterLog[k].arg
            /\ painterLog[r].call = "restore" /\ painterLog[r].arg = painterLog[k].arg
            /\ PainterCallsNamed({"save", "restore"}) \cap ((s + 1)..(r - 1)) = {}
  /\ \A k \in PainterCallsNamed({"render"}) :
       \E t \in PainterCallsNamed({"translate"}) :
         /\ painterLog[t].arg = painterLog[k].arg
         /\ PainterBefore(k).at = << painterLog[t].x, painterLog[t].y >>
  /\ \A i \in 1..MaxAnnotations :
       Cardinality({ k \in PainterCallsNamed({"render"}) : painterLog[k].arg = i }) = Times(i)
  /\ pc \in {"annotations", "finalize", "output", "georef", "georefPdf",
             "returned", "finished"} =>
       PainterAfter(painterLog) = [saved |-> << >>, at |-> Origin]

C15_Witness ==
  /\ pc = "returned"
  /\ stoppedBy = "canceled"
  /\ Len(mAnnotations) = 2
  /\ PainterCallsNamed({"render"}) # {}
  /\ \E k \in PainterCallsNamed({"translate"}) : painterLog[k].x # Double(0)
  /\ ops[Len(ops)].op = "annotation"

\* How often an object occurs in a sequence of objects.
Occurs(objects, o) == Cardinality({ k \in 1..Len(objects) : objects[k] = o })

\* C18: the list holds the clones of the last addAnnotations call and nothing
\* else, in the order they were made; every clone ever made is either in the
\* list or was deleted, exactly once; nothing but clones is deleted; after
\* finished() the list is empty and every clone was deleted exactly once.
C18_CloneOwnership ==
  /\ Len(owned) = Len(mAnnotations)
  /\ \A i \in 1..Len(owned) : owned[i] = Clone(nCloneCalls - Len(owned) + i)
  /\ \A n \in 1..nCloneCalls :
       Occurs(owned, Clone(n)) + Occurs(deletions, Clone(n)) = 1
  /\ \A k \in 1..Len(deletions) : deletions[k] \in { Clone(n) : n \in 1..nCloneCalls }
  /\ pc = "finished" =>
       /\ owned = << >> /\ mAnnotations = << >>
       /\ \A n \in 1..nCloneCalls : Occurs(deletions, Clone(n)) = 1

C18_Witness ==
  /\ pc = "finished"
  /\ addCallsLeft = 0
  /\ nCloneCalls >= 3
  /\ Len(deletions) = nCloneCalls

====
